---- MODULE Spec2Model ----
(***************************************************************************)
(* Model of detect_secrets/plugins/common/initialize.py: the resolution of *)
(* plugin parameters from the command line, the baseline and the defaults  *)
(* (merge_plugins_from_baseline), the instantiation of the resolved        *)
(* plugins (from_parser_builder, from_plugin_classname) and the lookup of  *)
(* a plugin by secret type (from_secret_type).                             *)
(*                                                                         *)
(* A Python dict is an insertion-ordered mapping.  The outer dicts         *)
(* (plugin name -> parameters) are modelled as sequences of entries        *)
(* [key, value] with distinct keys, because their order decides the order  *)
(* of the returned tuple.  The inner dicts (parameter name -> value) are   *)
(* functions; their iteration order is ParamOrder.                         *)
(*                                                                         *)
(* The shared options exclude_lines_regex, automaton and should_verify are *)
(* handed through to the constructor untouched and are left out.           *)
(***************************************************************************)
EXTENDS Integers, Sequences, FiniteSets, TLC

\* ------------------------------------------------------------------ bounds
\* parameter values are 1..MaxVal
MaxVal == 2

\* ---------------------------------------------------------------- universe
Base64 == "Base64HighEntropyString"
Custom == "CustomDetector"
PluginNames == {Base64, Custom}

ParamOrder == <<"base64_limit">>
ParamNames == {ParamOrder[i] : i \in DOMAIN ParamOrder}
Values == 1..MaxVal

\* every inner dict: parameter name -> value
ParamSets == UNION {[D -> Values] : D \in SUBSET ParamNames}

SecretTypes == {"Base64 High Entropy String", "Custom Secret", "Unknown Secret"}

\* Python's None
None == [none |-> TRUE]

\* --------------------------------------------------------- ordered dicts
Keys(d) == {d[i].key : i \in DOMAIN d}

IndexOf(d, k) == CHOOSE i \in DOMAIN d : d[i].key = k

\* d[k] for k in d
GetItem(d, k) == d[IndexOf(d, k)].value

\* d[k] = v on an outer dict: a present key keeps its place
SetItem(d, k, v) ==
    IF k \in Keys(d)
    THEN [d EXCEPT ![IndexOf(d, k)].value = v]
    ELSE Append(d, [key |-> k, value |-> v])

\* d[p] = v on an inner dict: overwrites, or inserts when p is missing
SetParam(ps, p, v) == [x \in (DOMAIN ps) \cup {p} |-> IF x = p THEN v ELSE ps[x]]

DistinctKeys(d) == \A i, j \in DOMAIN d : d[i].key = d[j].key => i = j

SeqsUpTo(S, n) == UNION {[1..m -> S] : m \in 0..n}

\* all outer dicts over the plugin names
PluginDicts ==
    {d \in SeqsUpTo([key : PluginNames, value : ParamSets], Cardinality(PluginNames)) :
        DistinctKeys(d)}

\* ------------------------------------------------------- plugin catalog
\* The classes of the built-in plugins and of the extra plugin file:
\* the parameters the constructor takes and the class's secret_type.
BuiltinPlugins ==
    <<[key |-> Base64,
       value |-> [accepts |-> {"base64_limit"}, secret_type |-> "Base64 High Entropy String"]]>>

ExtraPlugins ==
    <<[key |-> Custom,
       value |-> [accepts |-> {}, secret_type |-> "Custom Secret"]]>>

\* plugin_filenames: None (<<>>) or the tuple naming the extra plugin file
PluginFilenames == {<<>>, <<"custom_plugin.py">>}

\* import_plugins(plugin_filenames): the built-in plugins, then those of the files
import_plugins(plugin_filenames) ==
    IF plugin_filenames = <<>> THEN BuiltinPlugins ELSE BuiltinPlugins \o ExtraPlugins

\* get_mapping_from_secret_type_to_class_name(plugin_filenames)
get_mapping_from_secret_type_to_class_name(plugin_filenames) ==
    LET cat == import_plugins(plugin_filenames)
    IN  [i \in DOMAIN cat |-> [key |-> cat[i].value.secret_type, value |-> cat[i].key]]

\* klass(**kwargs) raises TypeError on a keyword the constructor does not take
RaisesTypeError(klass, kwargs) == ~((DOMAIN kwargs) \subseteq klass.accepts)

Instance(classname, kwargs) == [klass |-> classname, kwargs |-> kwargs]

\* ------------------------------------------------------- diagnostics
\* print(..., file=sys.stderr) of from_plugin_classname
StderrNoSuchPlugin(name) == [level |-> "stderr", about |-> name]
\* log.warning('Unable to initialize plugin!')
WarnUnableToInitialize == [level |-> "warning", about |-> "Unable to initialize plugin!"]
\* log.warning / log.debug of the merge, naming the plugin that is not in the seed
Skipped(level, name) == [level |-> level, about |-> name]

\* ------------------------------------------------ from_plugin_classname
\* The outcome of a call: raised, the value returned (None when it raised)
\* and the diagnostics it emitted, in order.
Outcome(raised, value, log) == [raised |-> raised, value |-> value, log |-> log]

\* variant: the KeyError of the lookup is not caught
from_plugin_classname_KeyErrorRaises(plugin_classname, plugin_filenames, kwargs) ==
    LET plugins == import_plugins(plugin_filenames)
    IN  IF plugin_classname \notin Keys(plugins)
        THEN Outcome(TRUE, None, <<>>)
        ELSE IF RaisesTypeError(GetItem(plugins, plugin_classname), kwargs)
        THEN Outcome(TRUE, None, <<WarnUnableToInitialize>>)
        ELSE Outcome(FALSE, Instance(plugin_classname, kwargs), <<>>)

\* variant: the TypeError is logged and swallowed
from_plugin_classname_TypeErrorSwallowed(plugin_classname, plugin_filenames, kwargs) ==
    LET plugins == import_plugins(plugin_filenames)
    IN  IF plugin_classname \notin Keys(plugins)
        THEN Outcome(FALSE, None, <<StderrNoSuchPlugin(plugin_classname)>>)
        ELSE IF RaisesTypeError(GetItem(plugins, plugin_classname), kwargs)
        THEN Outcome(FALSE, None, <<WarnUnableToInitialize>>)
        ELSE Outcome(FALSE, Instance(plugin_classname, kwargs), <<>>)

from_plugin_classname(plugin_classname, plugin_filenames, kwargs) ==
    LET plugins == import_plugins(plugin_filenames)
    IN  IF plugin_classname \notin Keys(plugins)
        THEN Outcome(FALSE, None, <<StderrNoSuchPlugin(plugin_classname)>>)
        ELSE IF RaisesTypeError(GetItem(plugins, plugin_classname), kwargs)
        THEN Outcome(TRUE, None, <<WarnUnableToInitialize>>)
        ELSE Outcome(FALSE, Instance(plugin_classname, kwargs), <<>>)

\* --------------------------------------------------- from_parser_builder
RECURSIVE ParserBuilderLoop(_, _, _, _)
ParserBuilderLoop(plugins_dict, plugin_filenames, i, acc) ==
    IF i > Len(plugins_dict)
    THEN acc
    ELSE LET r == from_plugin_classname(
                      plugins_dict[i].key, plugin_filenames, plugins_dict[i].value)
         IN  IF r.raised
             THEN Outcome(TRUE, None, acc.log \o r.log)
             ELSE ParserBuilderLoop(
                      plugins_dict, plugin_filenames, i + 1,
                      Outcome(FALSE, Append(acc.value, r.value), acc.log \o r.log))

from_parser_builder(plugins_dict, plugin_filenames) ==
    ParserBuilderLoop(plugins_dict, plugin_filenames, 1, Outcome(FALSE, <<>>, <<>>))

\* ------------------------------------------- _get_prioritized_parameters
\* is_using_default_value_map.get(param_name, False)
\* variant: .get(param_name, True)
IsUsingDefault_MissingIsDefault(is_using_default_value_map, param_name) ==
    IF param_name \in DOMAIN is_using_default_value_map
    THEN is_using_default_value_map[param_name]
    ELSE TRUE

IsUsingDefault(is_using_default_value_map, param_name) ==
    IF param_name \in DOMAIN is_using_default_value_map
    THEN is_using_default_value_map[param_name]
    ELSE FALSE

\* the triples one plugin yields, in the order of its parameters
YieldedParams(plugin_name, plugin_params, is_using_default_value_map, prefer_default) ==
    LET names == SelectSeq(ParamOrder,
                     LAMBDA p : /\ p \in DOMAIN plugin_params
                                /\ IsUsingDefault(is_using_default_value_map, p) = prefer_default)
    IN  [i \in DOMAIN names |->
            [plugin_name |-> plugin_name,
             param_name |-> names[i],
             param_value |-> plugin_params[names[i]]]]

RECURSIVE PrioritizedFrom(_, _, _, _)
PrioritizedFrom(plugins_dict, is_using_default_value_map, prefer_default, i) ==
    IF i > Len(plugins_dict)
    THEN <<>>
    ELSE YieldedParams(plugins_dict[i].key, plugins_dict[i].value,
                       is_using_default_value_map, prefer_default)
         \o PrioritizedFrom(plugins_dict, is_using_default_value_map, prefer_default, i + 1)

\* variant: is_using_default != prefer_default
_get_prioritized_parameters_Inverted(plugins_dict, is_using_default_value_map, prefer_default) ==
    PrioritizedFrom(plugins_dict, is_using_default_value_map, ~prefer_default, 1)

_get_prioritized_parameters(plugins_dict, is_using_default_value_map, prefer_default) ==
    PrioritizedFrom(plugins_dict, is_using_default_value_map, prefer_default, 1)

\* ------------------------------------------ merge_plugins_from_baseline
\* _remove_key(d, key): a copy of d without key
_remove_key(d, key) == [k \in (DOMAIN d) \ {key} |-> d[k]]

\* vars(plugin) of a baseline plugin: its parameters and its 'name'
PluginVars(name, params) ==
    [k \in (DOMAIN params) \cup {"name"} |-> IF k = "name" THEN name ELSE params[k]]

\* {vars(plugin)['name']: _remove_key(vars(plugin), 'name') for plugin in ...}:
\* a later record of a name replaces the value and keeps the first one's place
RECURSIVE BaselineDictFrom(_, _, _)
BaselineDictFrom(baseline_plugins, i, acc) ==
    IF i > Len(baseline_plugins)
    THEN acc
    ELSE BaselineDictFrom(baseline_plugins, i + 1,
             SetItem(acc, baseline_plugins[i]["name"], _remove_key(baseline_plugins[i], "name")))

baseline_plugins_dict(baseline_plugins) == BaselineDictFrom(baseline_plugins, 1, <<>>)

\* try: plugins_dict[plugin_name][param_name] = param_value
\* except KeyError: log
\* The lookup of plugin_name raises KeyError when the plugin is missing; the
\* assignment into the inner dict never does.
\* variant: plugins_dict.setdefault(plugin_name, {})[param_name] = param_value
AssignParam_InsertsPlugin(state, t, level) ==
    IF t.plugin_name \in Keys(state.plugins_dict)
    THEN [state EXCEPT !.plugins_dict =
             SetItem(@, t.plugin_name,
                     SetParam(GetItem(@, t.plugin_name), t.param_name, t.param_value))]
    ELSE [state EXCEPT !.plugins_dict =
             SetItem(@, t.plugin_name, SetParam(<<>>, t.param_name, t.param_value))]

AssignParam(state, t, level) ==
    IF t.plugin_name \in Keys(state.plugins_dict)
    THEN [state EXCEPT !.plugins_dict =
             SetItem(@, t.plugin_name,
                     SetParam(GetItem(@, t.plugin_name), t.param_name, t.param_value))]
    ELSE [state EXCEPT !.log = Append(@, Skipped(level, t.plugin_name))]

RECURSIVE AssignAll(_, _, _, _)
AssignAll(state, triples, level, i) ==
    IF i > Len(triples)
    THEN state
    ELSE AssignAll(AssignParam(state, triples[i], level), triples, level, i + 1)

\* variant: prefer_default=False in the branch of use_all_plugins
MergeUseAll_PreferExplicit(baseline_plugins, a) ==
    AssignAll([plugins_dict |-> a.plugins, log |-> <<>>],
              _get_prioritized_parameters(
                  baseline_plugins_dict(baseline_plugins), a.is_using_default_value, FALSE),
              "warning", 1)

\* The branch of args.use_all_plugins: the seed is args.plugins.
\* dict(args.plugins) copies the outer dict only, so every inner dict of
\* plugins_dict is the inner dict of args.plugins itself.
MergeUseAll(baseline_plugins, a) ==
    AssignAll([plugins_dict |-> a.plugins, log |-> <<>>],
              _get_prioritized_parameters(
                  baseline_plugins_dict(baseline_plugins), a.is_using_default_value, TRUE),
              "warning", 1)

\* variant: the disabled plugins are not filtered out
WithoutDisabled_KeepAll(d, disabled_plugins) == d

\* {name: params for name, params in baseline_plugins_dict.items()
\*  if name not in disabled_plugins}
WithoutDisabled(d, disabled_plugins) ==
    SelectSeq(d, LAMBDA e : e.key \notin disabled_plugins)

\* variant: prefer_default=True in the branch that starts from the baseline
MergeFromBaseline_PreferDefault(baseline_plugins, a) ==
    AssignAll([plugins_dict |->
                   WithoutDisabled(baseline_plugins_dict(baseline_plugins), a.disabled_plugins),
               log |-> <<>>],
              _get_prioritized_parameters(a.plugins, a.is_using_default_value, TRUE),
              "debug", 1)

\* The other branch: the seed is the baseline without the disabled plugins.
MergeFromBaseline(baseline_plugins, a) ==
    AssignAll([plugins_dict |->
                   WithoutDisabled(baseline_plugins_dict(baseline_plugins), a.disabled_plugins),
               log |-> <<>>],
              _get_prioritized_parameters(a.plugins, a.is_using_default_value, FALSE),
              "debug", 1)

\* args.plugins after the call: the branch of use_all_plugins writes through
\* the shared inner dicts, the other branch writes into the copies made by
\* _remove_key.
PluginsAfterMerge(use_all_plugins, merged, a) ==
    IF use_all_plugins THEN merged.plugins_dict ELSE a.plugins

merge_plugins_from_baseline(baseline_plugins, a, use_all_plugins) ==
    LET merged == IF use_all_plugins
                  THEN MergeUseAll(baseline_plugins, a)
                  ELSE MergeFromBaseline(baseline_plugins, a)
        built == from_parser_builder(merged.plugins_dict, a.plugin_filenames)
    IN  [plugins_dict |-> merged.plugins_dict,
         plugins_after |-> PluginsAfterMerge(use_all_plugins, merged, a),
         ret |-> Outcome(built.raised, built.value, merged.log \o built.log)]

\* ------------------------------------------------------- from_secret_type
RECURSIVE FirstNamed(_, _, _)
FirstNamed(settings, classname, i) ==
    IF i > Len(settings) THEN 0
    ELSE IF settings[i]["name"] = classname THEN i
    ELSE FirstNamed(settings, classname, i + 1)

\* from_plugin_classname is called without plugin_filenames, which is then None
from_secret_type(secret_type, settings, plugin_filenames) ==
    LET mapping == get_mapping_from_secret_type_to_class_name(plugin_filenames)
    IN  IF secret_type \notin Keys(mapping)
        THEN Outcome(FALSE, None, <<>>)
        ELSE LET classname == GetItem(mapping, secret_type)
                 i == FirstNamed(settings, classname, 1)
             IN  IF i = 0
                 THEN Outcome(FALSE, None, <<>>)
                 ELSE from_plugin_classname(classname, <<>>, _remove_key(settings[i], "name"))

\* ------------------------------------------------------------------ state
VARIABLES
    args,              \* the parsed arguments: plugins, is_using_default_value,
                       \* plugin_filenames, and the disabled plugins derived from them
    baseline_plugins,  \* the plugins of the baseline, each as its vars()
    op,                \* the last call
    use_all_plugins,   \* args.use_all_plugins of the last merge
    secret_type,       \* the secret type of the last from_secret_type
    entry_plugins,     \* args.plugins when the last call was entered
    plugins_dict,      \* the mapping the last merge handed to from_parser_builder
    ret,               \* the outcome of the last call
    saved_config       \* the resolved mapping the baseline was written from

vars == <<args, baseline_plugins, op, use_all_plugins, secret_type,
          entry_plugins, plugins_dict, ret, saved_config>>

DefaultFlagMaps == UNION {[D -> BOOLEAN] : D \in SUBSET ParamNames}

\* one record per entry of a mapping, with its name and its parameters
BaselineOf(config) == [i \in DOMAIN config |-> PluginVars(config[i].key, config[i].value)]

\* the baselines: plugin records in any order, each plugin named at most once
Baselines == {BaselineOf(d) : d \in PluginDicts}

\* no baseline has been written yet
NotWritten == [written |-> FALSE, config |-> <<>>]

Init ==
    /\ args \in [plugins : PluginDicts,
                  is_using_default_value : DefaultFlagMaps,
                  plugin_filenames : PluginFilenames,
                  disabled_plugins : SUBSET PluginNames]
    /\ baseline_plugins \in Baselines
    /\ op = "idle"
    /\ use_all_plugins = FALSE
    /\ secret_type = ""
    /\ entry_plugins = args.plugins
    /\ plugins_dict = <<>>
    /\ ret = Outcome(FALSE, None, <<>>)
    /\ saved_config = NotWritten

\* merge_plugins_from_baseline(baseline_plugins, args, automaton)
Merge(u) ==
    LET m == merge_plugins_from_baseline(baseline_plugins, args, u)
    IN  /\ op' = "merge"
        /\ use_all_plugins' = u
        /\ entry_plugins' = args.plugins
        /\ plugins_dict' = m.plugins_dict
        /\ ret' = m.ret
        /\ args' = [args EXCEPT !.plugins = m.plugins_after]
        /\ secret_type' = ""
        /\ UNCHANGED <<baseline_plugins, saved_config>>

\* from_secret_type(secret_type, settings, plugin_filenames) of audit, with the
\* baseline's plugins_used as settings
FromSecretType(t) ==
    /\ op' = "from_secret_type"
    /\ secret_type' = t
    /\ entry_plugins' = args.plugins
    /\ ret' = from_secret_type(t, baseline_plugins, args.plugin_filenames)
    /\ use_all_plugins' = FALSE
    /\ plugins_dict' = <<>>
    /\ UNCHANGED <<args, baseline_plugins, saved_config>>

\* the baseline written from the resolved plugins of a merge that returned
WriteBaseline ==
    /\ op = "merge"
    /\ ~ret.raised
    /\ op' = "write_baseline"
    /\ baseline_plugins' = BaselineOf(plugins_dict)
    /\ saved_config' = [written |-> TRUE, config |-> plugins_dict]
    /\ entry_plugins' = args.plugins
    /\ use_all_plugins' = FALSE
    /\ secret_type' = ""
    /\ plugins_dict' = <<>>
    /\ ret' = Outcome(FALSE, None, <<>>)
    /\ UNCHANGED args

Next ==
    \/ \E u \in BOOLEAN : Merge(u)
    \/ \E t \in SecretTypes : FromSecretType(t)
    \/ WriteBaseline

Spec == Init /\ [][Next]_vars

\* ------------------------------------------------------------ vocabulary
\* of the properties below
Flags == args.is_using_default_value
FlagIsDefault(p) == p \in DOMAIN Flags /\ Flags[p]
FlagIsExplicit(p) == p \in DOMAIN Flags /\ ~Flags[p]

MergedUseAll == op = "merge" /\ use_all_plugins
MergedFromBaseline == op = "merge" /\ ~use_all_plugins

\* the mapping d holds parameter p for plugin X
Holds(d, X, p) == X \in Keys(d) /\ p \in DOMAIN GetItem(d, X)

\* plugin X has the same parameter p, or none, in d1 and in d2
SameParam(d1, d2, X, p) ==
    /\ (p \in DOMAIN GetItem(d1, X)) <=> (p \in DOMAIN GetItem(d2, X))
    /\ p \in DOMAIN GetItem(d1, X) => GetItem(d1, X)[p] = GetItem(d2, X)[p]

SameMapping(d1, d2) ==
    /\ Keys(d1) = Keys(d2)
    /\ \A X \in Keys(d1) : GetItem(d1, X) = GetItem(d2, X)

BaselineNames == {baseline_plugins[i]["name"] : i \in DOMAIN baseline_plugins}
BaselineRecord(X) == baseline_plugins[CHOOSE i \in DOMAIN baseline_plugins :
                                          baseline_plugins[i]["name"] = X]
BaselineSupplies(X, p) == X \in BaselineNames /\ p \in DOMAIN BaselineRecord(X)

\* C1: after a merge with use_all_plugins, every plugin of args.plugins is in
\* the resolved mapping; a parameter flagged default that the baseline record
\* of the plugin supplies has the baseline's value, and a parameter flagged
\* explicit is as on the command line, whatever the baseline holds.
C1_PrecedenceUseAll ==
    MergedUseAll =>
        \A X \in Keys(entry_plugins) : \A p \in ParamNames :
            /\ X \in Keys(plugins_dict)
            /\ (FlagIsDefault(p) /\ BaselineSupplies(X, p)) =>
                   /\ Holds(plugins_dict, X, p)
                   /\ GetItem(plugins_dict, X)[p] = BaselineRecord(X)[p]
            /\ FlagIsExplicit(p) => SameParam(plugins_dict, entry_plugins, X, p)

\* the baseline's value has replaced a different default of the command line
C1_Witness ==
    /\ MergedUseAll
    /\ \E X \in Keys(entry_plugins) : \E p \in ParamNames :
           /\ FlagIsDefault(p)
           /\ BaselineSupplies(X, p)
           /\ p \in DOMAIN GetItem(entry_plugins, X)
           /\ GetItem(entry_plugins, X)[p] # BaselineRecord(X)[p]
           /\ GetItem(plugins_dict, X)[p] = BaselineRecord(X)[p]

\* C2: after a merge without use_all_plugins, every baseline plugin that is
\* not disabled is resolved; a flagged parameter that is explicit and on the
\* command line for the plugin has the command line's value, and one that is
\* flagged default is as in the baseline (absent when the baseline lacks it).
C2_PrecedenceFromBaseline ==
    MergedFromBaseline =>
        \A X \in BaselineNames \ args.disabled_plugins : \A p \in DOMAIN Flags :
            /\ X \in Keys(plugins_dict)
            /\ (~Flags[p] /\ Holds(entry_plugins, X, p)) =>
                   /\ Holds(plugins_dict, X, p)
                   /\ GetItem(plugins_dict, X)[p] = GetItem(entry_plugins, X)[p]
            /\ Flags[p] =>
                   /\ (p \in DOMAIN GetItem(plugins_dict, X)) <=> BaselineSupplies(X, p)
                   /\ BaselineSupplies(X, p) =>
                          GetItem(plugins_dict, X)[p] = BaselineRecord(X)[p]

\* an explicit command-line value has replaced a different baseline value
C2_Witness ==
    /\ MergedFromBaseline
    /\ \E X \in BaselineNames \ args.disabled_plugins : \E p \in DOMAIN Flags :
           /\ ~Flags[p]
           /\ Holds(entry_plugins, X, p)
           /\ BaselineSupplies(X, p)
           /\ BaselineRecord(X)[p] # GetItem(entry_plugins, X)[p]
           /\ GetItem(plugins_dict, X)[p] = GetItem(entry_plugins, X)[p]

\* C3: after a merge without use_all_plugins no disabled plugin is a key of
\* the resolved mapping, and the returned tuple has one slot per key, none of
\* them an instance of a disabled plugin.
C3_DisabledExcluded ==
    MergedFromBaseline =>
        /\ Keys(plugins_dict) \cap args.disabled_plugins = {}
        /\ ~ret.raised =>
               /\ Len(ret.value) = Len(plugins_dict)
               /\ \A i \in DOMAIN ret.value :
                      ret.value[i] # None => ret.value[i].klass \notin args.disabled_plugins

\* a disabled plugin of the baseline for which the command line carries an
\* explicit parameter
C3_Witness ==
    /\ MergedFromBaseline
    /\ \E X \in args.disabled_plugins \cap BaselineNames : \E p \in ParamNames :
           /\ Holds(entry_plugins, X, p)
           /\ ~FlagIsDefault(p)
           /\ X \notin Keys(plugins_dict)

\* the catalog of the merge, and the entries whose constructor rejects the
\* resolved parameters
MergeCatalog == import_plugins(args.plugin_filenames)
Known(i) == plugins_dict[i].key \in Keys(MergeCatalog)
Rejected(i) ==
    /\ Known(i)
    /\ RaisesTypeError(GetItem(MergeCatalog, plugins_dict[i].key), plugins_dict[i].value)

\* C4: a merge raises only when the constructor of a plugin of the catalog
\* rejects its parameters, never for a name the catalog lacks; when it
\* returns, the tuple has one slot per entry of the resolved mapping, in its
\* order: None for a name the catalog lacks, the instance otherwise.
C4_UnknownPluginTolerated ==
    op = "merge" =>
        /\ ret.raised => \E i \in DOMAIN plugins_dict : Rejected(i)
        /\ ~ret.raised =>
               /\ Len(ret.value) = Len(plugins_dict)
               /\ \A i \in DOMAIN plugins_dict :
                      ret.value[i] = IF Known(i)
                                     THEN Instance(plugins_dict[i].key, plugins_dict[i].value)
                                     ELSE None

\* a baseline record the catalog lacks got the first slot, holding None, and
\* the plugin after it was still instantiated
C4_Witness ==
    /\ op = "merge"
    /\ ~ret.raised
    /\ Len(ret.value) = 2
    /\ plugins_dict[1].key \in BaselineNames
    /\ ~Known(1)
    /\ ret.value[1] = None
    /\ ret.value[2] # None

\* C5: a merge whose resolved mapping holds an entry of the catalog whose
\* constructor rejects the parameters raises and returns no tuple, after
\* exactly one warning 'Unable to initialize plugin!', its last diagnostic.
C5_ConstructionFailureRaises ==
    (op = "merge" /\ \E i \in DOMAIN plugins_dict : Rejected(i)) =>
        /\ ret.raised
        /\ ret.value = None
        /\ Cardinality({i \in DOMAIN ret.log : ret.log[i] = WarnUnableToInitialize}) = 1
        /\ ret.log[Len(ret.log)] = WarnUnableToInitialize

\* the second entry is rejected after the first one was instantiated
C5_Witness ==
    /\ op = "merge"
    /\ Len(plugins_dict) = 2
    /\ Known(1) /\ ~Rejected(1)
    /\ Rejected(2)
    /\ ret.raised

\* the baseline was written from a resolved mapping and is merged with a
\* command line on which every parameter is flagged default
RoundTrip ==
    /\ op = "merge"
    /\ saved_config.written
    /\ baseline_plugins = BaselineOf(saved_config.config)
    /\ \A p \in ParamNames : FlagIsDefault(p)

\* C6 as claimed: the round trip resolves to the saved mapping, without
\* use_all_plugins when no plugin is disabled, and with use_all_plugins when
\* args.plugins holds the plugin names of the saved mapping.
C6_RoundTripAsClaimed ==
    RoundTrip =>
        /\ (~use_all_plugins /\ args.disabled_plugins = {}) =>
               SameMapping(plugins_dict, saved_config.config)
        /\ (use_all_plugins /\ Keys(entry_plugins) = Keys(saved_config.config)) =>
               SameMapping(plugins_dict, saved_config.config)

\* C6 amended: with use_all_plugins the round trip resolves to the saved
\* mapping when, besides the plugin names being the same, args.plugins holds
\* no parameter that the saved mapping lacks for the plugin.
C6_RoundTrip ==
    RoundTrip =>
        /\ (~use_all_plugins /\ args.disabled_plugins = {}) =>
               SameMapping(plugins_dict, saved_config.config)
        /\ (/\ use_all_plugins
            /\ Keys(entry_plugins) = Keys(saved_config.config)
            /\ \A X \in Keys(entry_plugins) :
                   DOMAIN GetItem(entry_plugins, X) \subseteq DOMAIN GetItem(saved_config.config, X)) =>
               SameMapping(plugins_dict, saved_config.config)

\* a round trip with use_all_plugins in which the baseline's value replaced a
\* different default of the command line
C6_Witness ==
    /\ RoundTrip
    /\ use_all_plugins
    /\ Keys(entry_plugins) = Keys(saved_config.config)
    /\ \E X \in Keys(entry_plugins) : \E p \in ParamNames :
           /\ Holds(entry_plugins, X, p)
           /\ Holds(saved_config.config, X, p)
           /\ GetItem(entry_plugins, X)[p] # GetItem(saved_config.config, X)[p]
    /\ \A X \in Keys(entry_plugins) :
           DOMAIN GetItem(entry_plugins, X) \subseteq DOMAIN GetItem(saved_config.config, X)

\* C7: a merge leaves args.plugins, every parameter set included, as it was
\* when the call was entered.
C7_MergeLeavesArgs ==
    op = "merge" => args.plugins = entry_plugins

\* the seed of the last merge, as plugin -> parameters, and the parameters
\* the overriding side supplies for it
SeedNames ==
    IF use_all_plugins THEN Keys(entry_plugins) ELSE BaselineNames \ args.disabled_plugins
SeedHolds(X, p) ==
    /\ X \in SeedNames
    /\ IF use_all_plugins THEN Holds(entry_plugins, X, p) ELSE BaselineSupplies(X, p)
Overrides(X, p) ==
    IF use_all_plugins
    THEN BaselineSupplies(X, p) /\ FlagIsDefault(p)
    ELSE Holds(entry_plugins, X, p) /\ ~FlagIsDefault(p)
OverridingValue(X, p) ==
    IF use_all_plugins THEN BaselineRecord(X)[p] ELSE GetItem(entry_plugins, X)[p]
SkipLevel == IF use_all_plugins THEN "warning" ELSE "debug"
LoggedSkip(X) == \E i \in DOMAIN ret.log : ret.log[i] = Skipped(SkipLevel, X)

\* C8 as claimed: a parameter of the overriding side that has no home in the
\* seed, its plugin or the plugin's parameter missing there, is not written
\* into the resolved mapping.
C8_NoHomeSkippedAsClaimed ==
    op = "merge" =>
        \A X \in PluginNames : \A p \in ParamNames :
            (Overrides(X, p) /\ ~SeedHolds(X, p)) => ~Holds(plugins_dict, X, p)

\* C8 amended: the resolved mapping has the plugins of the seed; a parameter
\* of the overriding side whose plugin is not in the seed is skipped with a
\* diagnostic, and every one whose plugin is in the seed is written with the
\* overriding value, also when the seed's entry has no such parameter.
C8_NoHomeSkipped ==
    op = "merge" =>
        /\ Keys(plugins_dict) = SeedNames
        /\ \A X \in PluginNames : \A p \in ParamNames :
               Overrides(X, p) =>
                   IF X \in SeedNames
                   THEN /\ Holds(plugins_dict, X, p)
                        /\ GetItem(plugins_dict, X)[p] = OverridingValue(X, p)
                   ELSE /\ X \notin Keys(plugins_dict)
                        /\ LoggedSkip(X)

\* the first plugin of the command line is not in the seed and is skipped,
\* the second one then gets a parameter its baseline record lacks
C8_Witness ==
    /\ MergedFromBaseline
    /\ Len(entry_plugins) = 2
    /\ \E p \in ParamNames :
           /\ Overrides(entry_plugins[1].key, p)
           /\ entry_plugins[1].key \notin SeedNames
           /\ LoggedSkip(entry_plugins[1].key)
           /\ Overrides(entry_plugins[2].key, p)
           /\ entry_plugins[2].key \in SeedNames
           /\ ~SeedHolds(entry_plugins[2].key, p)
           /\ Holds(plugins_dict, entry_plugins[2].key, p)

\* C9: a parameter without an entry in is_using_default_value is explicit:
\* with use_all_plugins it stays as on the command line for every plugin,
\* and otherwise the command line's value is in the resolved entry of every
\* resolved plugin for which the command line holds it.
C9_UnflaggedIsExplicit ==
    \A p \in ParamNames \ DOMAIN Flags :
        /\ MergedUseAll =>
               \A X \in Keys(entry_plugins) :
                   X \in Keys(plugins_dict) /\ SameParam(plugins_dict, entry_plugins, X, p)
        /\ MergedFromBaseline =>
               \A X \in Keys(plugins_dict) :
                   Holds(entry_plugins, X, p) =>
                       /\ Holds(plugins_dict, X, p)
                       /\ GetItem(plugins_dict, X)[p] = GetItem(entry_plugins, X)[p]

\* an unflagged command-line parameter was kept although the baseline holds
\* another value for it
C9_Witness ==
    /\ MergedUseAll
    /\ \E p \in ParamNames \ DOMAIN Flags : \E X \in Keys(entry_plugins) :
           /\ Holds(entry_plugins, X, p)
           /\ BaselineSupplies(X, p)
           /\ BaselineRecord(X)[p] # GetItem(entry_plugins, X)[p]
           /\ GetItem(plugins_dict, X)[p] = GetItem(entry_plugins, X)[p]

\* C10: when the secret type maps to a class under plugin_filenames and the
\* settings hold a record of that class whose parameters the constructor
\* takes, from_secret_type returns the instance built from them; it returns
\* None when the type is unmapped or no record names the class.
C10_FromSecretTypeSameCatalog ==
    op = "from_secret_type" =>
        LET mapping == get_mapping_from_secret_type_to_class_name(args.plugin_filenames)
            classname == GetItem(mapping, secret_type)
            kwargs == _remove_key(BaselineRecord(classname), "name")
        IN  IF secret_type \in Keys(mapping) /\ classname \in BaselineNames
            THEN ~RaisesTypeError(GetItem(MergeCatalog, classname), kwargs) =>
                     /\ ~ret.raised
                     /\ ret.value = Instance(classname, kwargs)
            ELSE ~ret.raised /\ ret.value = None

====
